---- MODULE Spec2Model ----
(***************************************************************************)
(* State-machine model of the crawl-and-download engine of src/crawler.py  *)
(* (class CrawlerWorker): the crawl loop run(), the external stop(), the    *)
(* page step process_page() with its ThreadPoolExecutor download batch, and *)
(* the per-image job download_image().                                      *)
(*                                                                          *)
(* Two threads of control touch the worker beside the pool threads: the     *)
(* QThread executing run() (the navigator) and the GUI thread calling       *)
(* stop().  Pool threads execute download_image concurrently; the only      *)
(* worker fields they share are total_bytes_downloaded and the disk.        *)
(***************************************************************************)
EXTENDS Integers, Sequences, FiniteSets, TLC

(* ------------------------------ bounds --------------------------------- *)
\* distinct article URLs (and as many distinct redirector URLs) of the site
NumPages == 2
\* most image candidates a page yields in a whole run (Spec)
MaxImages == 1
\* most image candidates of the page in a single process_page call (PageSpec)
MaxBatch == 2
\* most bytes the site serves over one run (caps the bandwidth counter)
MaxBytes == 2
\* most pieces (placeholders, separators, letters) of a naming pattern
MaxPieces == 2
\* most <img> tags of a page whose sources are filtered by extension
MaxTags == 2
\* most elements of a page that carry the marker of the post date
MaxMarkers == 2
\* most rows the task table holds before a page starts
MaxRows == 1
\* download_image calls running side by side on their own (JobSpec), and the
\* most bytes they are served
MaxJobs == 2
MaxStream == 3
\* images of the page whose pool is watched (PoolSpec): one more than the pool
\* has threads
PoolJobs == 6

(* -------------------------- program constants -------------------------- *)
\* ThreadPoolExecutor(max_workers=5)
max_workers == 5
\* download_image: max_retries = 3
max_retries == 3

(* ------------------------------- URLs ---------------------------------- *)
\* A URL is <<script, id>>: an article (read.php) or the redirector (job.php).
PageURLs == {<<"read.php", i>> : i \in 1..NumPages}
JobURLs == {<<"job.php", i>> : i \in 1..NumPages}
URLs == PageURLs \cup JobURLs
\* soup.find(...) returned None: the anchor is absent
NoLink == <<"none", 0>>
Links == URLs \cup {NoLink}
\* the target paths format_filename renders to: two, so that jobs of a page
\* can share a target path or not
Paths == {1, 2}
\* lengths of the chunks resp.iter_content can deliver
ChunkLens == {1, 2}
Modes == {"next", "prev", "free"}
\* status codes of the final response of a page GET that returns: one 2xx and
\* one that is neither 2xx nor in the retry adapter's status_forcelist
PageStatuses == {200, 404}

\* 'job.php' in url
HasJobPhp(u) == u[1] = "job.php"

VARIABLES
  \* CrawlerWorker fields
  url_queue, visited_urls, config, is_running, total_bytes_downloaded,
  \* position of the thread executing run()
  nav_pc,
  \* locals of run() / process_page()
  current_url, url, jobs, completed_count, downloaded_count,
  \* resp.status_code of the page GET (0: no response at hand)
  resp_status,
  \* the disk: path -> "absent" | "old" (there before the run) | "new"
  files,
  \* what the signals carried (observations): the status, title and date of
  \* the last status_update of the page, the number of finished signals
  page_status, status_title, status_date, finished_count,
  \* observations used to state the properties
  processed, received, interrupted, exit_reason, pops_after_stop,
  \* the navigation step as a function of its inputs (NavSpec)
  n_pc, n_mode, n_next, n_prev, n_resp, n_before, n_queue,
  \* one call of a function of the program: its position, arguments and result
  f_pc, f_in, f_out,
  \* observation: the final URL (resp.url) each processed page was fetched
  \* under, NoLink for a page whose GET raised; recorded where a specification
  \* says so
  processed_as

crawlVars == <<url_queue, visited_urls, config, is_running, total_bytes_downloaded,
               nav_pc, current_url, url, jobs, completed_count, downloaded_count,
               resp_status, files, page_status, status_title, status_date,
               finished_count, processed, received, interrupted, exit_reason,
               pops_after_stop>>
navVars == <<n_pc, n_mode, n_next, n_prev, n_resp, n_before, n_queue>>
funVars == <<f_pc, f_in, f_out>>
obsVars == <<processed_as>>
vars == <<crawlVars, navVars, funVars, obsVars>>


(* ------------------------ redirect resolution -------------------------- *)
\* What the GET of a redirector link answers: it raises, or it ends at r.url
\* with a body that may hold a meta-refresh target and a script target.
Responses ==
  {[raises |-> TRUE, url |-> NoLink, meta |-> NoLink, js |-> NoLink]}
  \cup {[raises |-> FALSE, url |-> u, meta |-> NoLink, js |-> NoLink] : u \in PageURLs}
  \cup {[raises |-> FALSE, url |-> u, meta |-> m, js |-> s] :
          u \in JobURLs, m \in Links, s \in Links}

\* The try block that follows "if 'job.php' in next_url": the link after it.
ResolveRedirect(link, resp) ==
  IF resp.raises THEN link
  ELSE IF HasJobPhp(resp.url)
       THEN IF resp.meta # NoLink THEN resp.meta
            ELSE IF resp.js # NoLink THEN resp.js
            ELSE resp.url
       ELSE resp.url

\* next_url / prev_url as it stands before the enqueue test
ResolveLink(link, resp) ==
  IF HasJobPhp(link) THEN ResolveRedirect(link, resp) ELSE link

\* Mutant: mode 'next' falls back to the previous-topic anchor, as 'free' does.
FollowedLink_NextFallsBack(mode, next_link, prev_link) ==
  CASE mode = "free" -> IF next_link # NoLink THEN next_link ELSE prev_link
    [] mode = "next" -> IF next_link # NoLink THEN next_link ELSE prev_link
    [] mode = "prev" -> prev_link
    [] OTHER -> NoLink

\* Mutant: mode 'free' tries the previous-topic anchor first.
FollowedLink_FreePrefersPrev(mode, next_link, prev_link) ==
  CASE mode = "free" -> IF prev_link # NoLink THEN prev_link ELSE next_link
    [] mode = "next" -> next_link
    [] mode = "prev" -> prev_link
    [] OTHER -> NoLink

\* The anchor each mode follows: NoLink when traversal ends in that direction.
FollowedLink(mode, next_link, prev_link) ==
  CASE mode = "free" -> IF next_link # NoLink THEN next_link ELSE prev_link
    [] mode = "next" -> next_link
    [] mode = "prev" -> prev_link
    [] OTHER -> NoLink

\* Mutant: the link is appended without the 'job.php' test.
AppendAlways(u) == <<u>>

\* if 'job.php' not in next_url: self.url_queue.append(next_url)
\* (else the link is logged as a failed redirect): what is appended.
AppendUnlessRedirector(u) ==
  IF ~HasJobPhp(u) THEN <<u>> ELSE <<>>

\* Mutant: the free mode follows both anchors of the page.
NavAppend_FreeFollowsBoth(mode, next_link, prev_link, resp) ==
  IF mode = "free" /\ next_link # NoLink /\ prev_link # NoLink
  THEN AppendUnlessRedirector(ResolveLink(next_link, resp))
       \o AppendUnlessRedirector(ResolveLink(prev_link, resp))
  ELSE LET link == FollowedLink(mode, next_link, prev_link)
       IN IF link = NoLink THEN <<>>
          ELSE AppendUnlessRedirector(ResolveLink(link, resp))

\* The navigation block of process_page: the URLs it appends to url_queue.
NavAppend(mode, next_link, prev_link, resp) ==
  LET link == FollowedLink(mode, next_link, prev_link)
  IN IF link = NoLink THEN <<>>
     ELSE AppendUnlessRedirector(ResolveLink(link, resp))

\* every outcome of the navigation block, over the modes, the anchors a page
\* can hold and the answers of the redirector
NavAppends ==
  {NavAppend(m, nx, pv, r) : m \in Modes, nx \in Links, pv \in Links, r \in Responses}

(* --------------------------- download jobs ----------------------------- *)
\* One submitted future: the thread's position in download_image, its locals
\* (attempt; sum, the value "+=" is about to store) and what it did
\* (fetched: it issued a GET; wrote: it wrote its file; waits: the seconds of
\* each backoff sleep it has slept), its return value, and whether
\* as_completed has yielded it.
NewJob(p) ==
  [pc |-> "queued", attempt |-> 0, path |-> p, sum |-> 0, fetched |-> FALSE,
   wrote |-> FALSE, waits |-> <<>>, result |-> FALSE, yielded |-> FALSE]

JobIds == 1..Len(jobs)
Executing == {j \in JobIds : jobs[j].pc \notin {"queued", "done"}}
\* Mutant: leaving the pool block does not wait for the jobs.
AllDone_NoWait == TRUE

AllDone == \A j \in JobIds : jobs[j].pc = "done"

\* Mutant: the exists test is dropped, every job downloads.
FileExists_Never(p) == FALSE

\* os.path.exists(full_save_path)
FileExists(p) == files[p] # "absent"

\* return True / return False.  The index of the last attempt and the backoff
\* sleeps are kept as an observation on the job that ran out of attempts,
\* dropped on the others.
Return(job, ok) ==
  [job EXCEPT !.pc = "done", !.result = ok, !.attempt = IF ok THEN 0 ELSE @,
              !.waits = IF ok THEN <<>> ELSE @]

\* Mutant: the retry bound is off by one (a fourth attempt).
FailAttempt_OffByOne(job) ==
  LET slept == [job EXCEPT !.waits = Append(@, 1 + job.attempt)]
  IN IF job.attempt + 1 <= max_retries
     THEN [slept EXCEPT !.pc = "attempt", !.attempt = job.attempt + 1]
     ELSE [slept EXCEPT !.pc = "done", !.result = FALSE]

\* except Exception: log, time.sleep(1 + attempt), then the next iteration of
\* "for attempt in range(max_retries)", or "return False" after the last.
FailAttempt(job) ==
  LET slept == [job EXCEPT !.waits = Append(@, 1 + job.attempt)]
  IN IF job.attempt + 1 < max_retries
     THEN [slept EXCEPT !.pc = "attempt", !.attempt = job.attempt + 1]
     ELSE Return(slept, FALSE)

\* Mutant: a page without images counts as failed.
FinalStatus_EmptyIsError(downloaded, total) ==
  IF total = 0 THEN "error"
  ELSE IF downloaded = total THEN "success"
  ELSE IF downloaded > 0 THEN "warning"
  ELSE "error"

\* Mutant: any success makes the page a success.
FinalStatus_AnySuccess(downloaded, total) ==
  IF downloaded > 0 \/ total = 0 THEN "success" ELSE "error"

\* if downloaded_count == total_images ... elif downloaded_count > 0 ... else
FinalStatus(downloaded, total) ==
  IF downloaded = total THEN "success"
  ELSE IF downloaded > 0 THEN "warning"
  ELSE "error"

\* Mutant: an image is skipped only when both its dimensions fall short.
SkippedForResolution_BothBelow(min_res, img) ==
  /\ min_res[1] > 0 \/ min_res[2] > 0
  /\ img.loads
  /\ img.w < min_res[1] /\ img.h < min_res[2]

\* if min_w > 0 or min_h > 0: ... if image.width() < min_w or image.height() < min_h
SkippedForResolution(min_res, img) ==
  /\ min_res[1] > 0 \/ min_res[2] > 0
  /\ img.loads
  /\ img.w < min_res[1] \/ img.h < min_res[2]

\* what QImage.loadFromData can make of a body
Images == [loads : BOOLEAN, w : {1, 2}, h : {1, 2}]
MinResolutions == {<<0, 0>>, <<2, 2>>}


\* the ordered candidate lists of at most n images a page can yield, each image
\* by its target path
ImageLists(n) == UNION {[1..k -> Paths] : k \in 0..n}

(* ------------------------------- Init ---------------------------------- *)
\* No function is called on its own.
FunIdle ==
  /\ f_pc = "idle"
  /\ f_in = <<>>
  /\ f_out = <<>>

\* The navigation function is not exercised by the crawl specification.
NavIdle ==
  /\ n_pc = "idle"
  /\ n_mode = "next"
  /\ n_next = NoLink
  /\ n_prev = NoLink
  /\ n_resp = [raises |-> TRUE, url |-> NoLink, meta |-> NoLink, js |-> NoLink]
  /\ n_before = <<>>
  /\ n_queue = <<>>

\* CrawlerWorker.__init__(start_url, config); the disk holds what earlier runs left.
Init ==
  /\ url_queue = << <<"read.php", 1>> >>
  /\ visited_urls = {}
  /\ config \in [min_resolution : MinResolutions]
  /\ is_running = TRUE
  /\ total_bytes_downloaded = 0
  /\ nav_pc = "check"
  /\ current_url = NoLink
  /\ url = NoLink
  /\ jobs = <<>>
  /\ completed_count = 0
  /\ downloaded_count = 0
  /\ files \in [Paths -> {"absent", "old"}]
  /\ page_status = "none"
  /\ status_title = ""
  /\ status_date = ""
  /\ resp_status = 0
  /\ finished_count = 0
  /\ processed = <<>>
  /\ received = 0
  /\ interrupted = FALSE
  /\ exit_reason = "none"
  /\ pops_after_stop = 0
  /\ NavIdle
  /\ FunIdle
  /\ processed_as = <<>>

(* --------------------------- run(): the loop --------------------------- *)
pageLocals == <<current_url, url, jobs, completed_count, downloaded_count,
                resp_status, page_status, status_title, status_date, interrupted>>
workerShared == <<total_bytes_downloaded, files, received>>

\* Mutant: the loop tests the queue alone.
LoopCondition_IgnoresStop == url_queue # <<>>

\* while self.is_running and self.url_queue:
LoopCondition == is_running /\ url_queue # <<>>

LoopCheck ==
  /\ nav_pc = "check"
  /\ IF LoopCondition
     THEN nav_pc' = "pop" /\ UNCHANGED exit_reason
     ELSE /\ nav_pc' = "finally"
          /\ exit_reason' = IF ~is_running THEN "stop" ELSE "empty"
  /\ UNCHANGED <<url_queue, visited_urls, config, is_running, pageLocals,
                 workerShared, finished_count, processed, pops_after_stop, navVars, funVars, obsVars>>

\* Mutant: the visited test is dropped.
AlreadyVisited_Never(u) == FALSE

\* if current_url in self.visited_urls
AlreadyVisited(u) == u \in visited_urls

\* current_url = self.url_queue.pop(0); continue when visited; else
\* visited_urls.add(current_url) and enter process_page(current_url, mode)
PopUrl ==
  /\ nav_pc = "pop"
  /\ current_url' = Head(url_queue)
  /\ url_queue' = Tail(url_queue)
  /\ pops_after_stop' = IF is_running THEN pops_after_stop ELSE pops_after_stop + 1
  /\ IF AlreadyVisited(Head(url_queue))
     THEN /\ nav_pc' = "check"
          /\ UNCHANGED <<visited_urls, processed, page_status, status_title>>
     ELSE /\ visited_urls' = visited_urls \cup {Head(url_queue)}
          /\ processed' = Append(processed, Head(url_queue))
          /\ page_status' = "running"
          /\ status_title' = "Analyzing..."
          /\ nav_pc' = "fetch"
  /\ UNCHANGED <<config, is_running, url, jobs, completed_count, downloaded_count,
                 resp_status, status_date, interrupted, workerShared,
                 finished_count, exit_reason, navVars, funVars, obsVars>>

\* Mutant: the exception of the page GET is not caught in process_page; it
\* reaches the except clause of run(), which ends the run.
PageFailed_Escapes ==
  /\ page_status' = "error"
  /\ status_title' = "Failed"
  /\ status_date' = ""
  /\ nav_pc' = "finally"

\* except Exception as e (the end of process_page): the error is logged,
\* status_update.emit(url, "error", "Failed", "") and process_page returns.
PageFailed ==
  /\ page_status' = "error"
  /\ status_title' = "Failed"
  /\ status_date' = ""
  /\ nav_pc' = "delay"

\* process_page up to the submit of the batch: the page GET raises, or it
\* answers with a status code (one of statuses, which no statement reads), a
\* final URL (resp.url, one of finals) and a body whose parse yields a title,
\* a date and the candidate images (one of lists), one job each.
FetchPage(lists, finals, statuses) ==
  /\ nav_pc = "fetch"
  /\ \/ /\ PageFailed
        /\ UNCHANGED <<url, jobs, resp_status>>
     \/ \E final \in finals, imgs \in lists, code \in statuses :
          /\ url' = final
          /\ resp_status' = code
          /\ jobs' = [i \in 1..Len(imgs) |-> NewJob(imgs[i])]
          /\ nav_pc' = "batch"
          /\ status_title' = "title"
          /\ status_date' = "date"
          /\ UNCHANGED page_status
  /\ completed_count' = 0
  /\ downloaded_count' = 0
  /\ interrupted' = FALSE
  /\ UNCHANGED <<url_queue, visited_urls, config, is_running, current_url,
                 workerShared, finished_count, processed, exit_reason,
                 pops_after_stop, navVars, funVars>>


\* process_page as the crawl loop calls it.  The status code of the answer is
\* read nowhere, so it is taken to be 200 here.
CrawlFetch == FetchPage(ImageLists(MaxImages), PageURLs, {200}) /\ UNCHANGED obsVars

(* ----------------- process_page: the download batch -------------------- *)
\* Mutant: progress carries the position of the image in the page instead of
\* the number of completed futures.
BatchNext_ByIndex ==
  /\ nav_pc = "batch"
  /\ \E j \in JobIds :
       /\ jobs[j].pc = "done"
       /\ ~jobs[j].yielded
       /\ IF ~is_running
          THEN /\ interrupted' = TRUE
               /\ nav_pc' = "join"
               /\ UNCHANGED <<jobs, completed_count, downloaded_count>>
          ELSE /\ jobs' = [jobs EXCEPT ![j].yielded = TRUE]
               /\ completed_count' = j
               /\ downloaded_count' =
                    IF jobs[j].result THEN downloaded_count + 1 ELSE downloaded_count
               /\ UNCHANGED <<interrupted, nav_pc>>
  /\ UNCHANGED <<url_queue, visited_urls, config, is_running, current_url, url,
                 resp_status, page_status, status_title, status_date,
                 total_bytes_downloaded, files, received, finished_count,
                 processed, exit_reason, pops_after_stop, n_pc, n_mode, n_next,
                 n_prev, n_resp, n_before, n_queue,
                 f_pc, f_in, f_out, processed_as>>

\* One iteration of "for future in as_completed(future_to_url)": a finished
\* future not yet yielded is yielded; on a cleared is_running the loop calls
\* executor.shutdown(wait=False) and breaks, else it counts the future.
BatchNext ==
  /\ nav_pc = "batch"
  /\ \E j \in JobIds :
       /\ jobs[j].pc = "done"
       /\ ~jobs[j].yielded
       /\ IF ~is_running
          THEN /\ interrupted' = TRUE
               /\ nav_pc' = "join"
               /\ UNCHANGED <<jobs, completed_count, downloaded_count>>
          ELSE /\ jobs' = [jobs EXCEPT ![j].yielded = TRUE]
               /\ completed_count' = completed_count + 1
               /\ downloaded_count' =
                    IF jobs[j].result THEN downloaded_count + 1 ELSE downloaded_count
               /\ UNCHANGED <<interrupted, nav_pc>>
  /\ UNCHANGED <<url_queue, visited_urls, config, is_running, current_url, url,
                 resp_status, page_status, status_title, status_date,
                 workerShared, finished_count, processed,
                 exit_reason, pops_after_stop, navVars, funVars, obsVars>>

\* as_completed is exhausted: every future was yielded
BatchEnd ==
  /\ nav_pc = "batch"
  /\ \A j \in JobIds : jobs[j].yielded
  /\ nav_pc' = "join"
  /\ UNCHANGED <<url_queue, visited_urls, config, is_running, pageLocals,
                 workerShared, finished_count, processed, exit_reason,
                 pops_after_stop, navVars, funVars, obsVars>>

\* Mutant: a failed job ends the page: past the with block the page is marked
\* "error" and process_page returns without its navigation block.
PoolExit_FailureEndsPage ==
  /\ nav_pc = "join"
  /\ AllDone
  /\ IF \E j \in JobIds : jobs[j].yielded /\ ~jobs[j].result
     THEN page_status' = "error" /\ nav_pc' = "delay"
     ELSE page_status' = FinalStatus(downloaded_count, Len(jobs)) /\ nav_pc' = "nav"
  /\ UNCHANGED <<url_queue, visited_urls, config, is_running, current_url, url,
                 jobs, completed_count, downloaded_count, interrupted,
                 resp_status, status_title, status_date,
                 total_bytes_downloaded, files, received, finished_count,
                 processed, exit_reason, pops_after_stop, n_pc, n_mode, n_next,
                 n_prev, n_resp, n_before, n_queue,
                 f_pc, f_in, f_out, processed_as>>

\* Leaving "with ThreadPoolExecutor(...) as executor": __exit__ is
\* shutdown(wait=True), which returns when every submitted job has run; then
\* the final status_update of the page.
PoolExit ==
  /\ nav_pc = "join"
  /\ AllDone
  /\ page_status' = FinalStatus(downloaded_count, Len(jobs))
  /\ nav_pc' = "nav"
  /\ UNCHANGED <<url_queue, visited_urls, config, is_running, current_url, url,
                 jobs, completed_count, downloaded_count, interrupted,
                 resp_status, status_title, status_date,
                 workerShared, finished_count, processed, exit_reason,
                 pops_after_stop, navVars, funVars, obsVars>>

\* The navigation block: config's mode, the anchors of the parsed page and the
\* redirector's answer decide what is appended.  The mode is a value of the
\* immutable config that only this block reads, so it is drawn here.  Then
\* process_page returns and its locals are gone.
Navigate ==
  /\ nav_pc = "nav"
  /\ \E a \in NavAppends : url_queue' = url_queue \o a
  /\ jobs' = <<>>
  /\ url' = NoLink
  /\ completed_count' = 0
  /\ downloaded_count' = 0
  /\ interrupted' = FALSE
  /\ resp_status' = 0
  /\ nav_pc' = "delay"
  /\ UNCHANGED <<visited_urls, config, is_running, current_url, page_status,
                 status_title, status_date,
                 workerShared, finished_count, processed, exit_reason,
                 pops_after_stop, navVars, funVars, obsVars>>

\* The anti-scraping delay that ends the loop body; a statement of the body
\* raising (the unpack of page_delay, sleep of a negative delay) lands in
\* "except Exception", which logs and falls to the finally clause.
Delay ==
  /\ nav_pc = "delay"
  /\ \/ nav_pc' = "check" /\ UNCHANGED exit_reason
     \/ nav_pc' = "finally" /\ exit_reason' = "exception"
  /\ page_status' = "none"
  /\ status_title' = ""
  /\ status_date' = ""
  /\ current_url' = NoLink
  /\ UNCHANGED <<url_queue, visited_urls, config, is_running, url, jobs,
                 completed_count, downloaded_count, resp_status, interrupted,
                 workerShared, finished_count, processed, pops_after_stop, navVars, funVars, obsVars>>

\* Mutant: finished is emitted after the loop inside the try block, so a run
\* that ends in the except clause emits nothing.
Finally_NotAfterException ==
  /\ nav_pc = "finally"
  /\ finished_count' = IF exit_reason = "exception" THEN finished_count
                       ELSE finished_count + 1
  /\ nav_pc' = "done"
  /\ UNCHANGED <<url_queue, visited_urls, config, is_running, current_url, url,
                 jobs, completed_count, downloaded_count, resp_status,
                 page_status, status_title, status_date,
                 interrupted, total_bytes_downloaded, files, received,
                 processed, exit_reason, pops_after_stop, n_pc, n_mode, n_next,
                 n_prev, n_resp, n_before, n_queue,
                 f_pc, f_in, f_out, processed_as>>

\* finally: self.signals.finished.emit()
Finally ==
  /\ nav_pc = "finally"
  /\ finished_count' = finished_count + 1
  /\ nav_pc' = "done"
  /\ UNCHANGED <<url_queue, visited_urls, config, is_running, pageLocals,
                 workerShared, processed, exit_reason, pops_after_stop, navVars, funVars, obsVars>>

\* stop(), called from the GUI thread at any moment
Stop ==
  /\ is_running
  /\ is_running' = FALSE
  /\ UNCHANGED <<url_queue, visited_urls, config, nav_pc, pageLocals,
                 workerShared, page_status, finished_count, processed,
                 exit_reason, pops_after_stop, navVars, funVars, obsVars>>


(* ------------------- download_image on a pool thread ------------------- *)
navOnly == <<url_queue, visited_urls, config, is_running, nav_pc, current_url,
             url, completed_count, downloaded_count, resp_status, page_status,
             status_title, status_date, interrupted,
             finished_count, processed, exit_reason, pops_after_stop, navVars, funVars, obsVars>>

\* Mutant: a thread per submitted job, no bound on the pool.
WorkerAvailable_Unbounded == TRUE

\* ThreadPoolExecutor(max_workers=5): a work item is taken by a thread that is
\* idle or that the executor may still create.
WorkerAvailable == Cardinality(Executing) < max_workers

\* A pool thread takes the next work item: items leave the work queue in
\* submit order, and at most max_workers threads exist.
StartJob(j) ==
  /\ jobs[j].pc = "queued"
  /\ \A k \in 1..(j - 1) : jobs[k].pc # "queued"
  /\ WorkerAvailable
  /\ jobs' = [jobs EXCEPT ![j].pc = "attempt"]
  /\ UNCHANGED <<navOnly, workerShared>>

\* The head of one attempt: the target path is rendered and tested; an
\* existing file returns True; otherwise the GET is issued, and either it
\* raises / answers a status other than 200, or the body starts streaming.
Attempt(j) ==
  /\ jobs[j].pc = "attempt"
  /\ IF FileExists(jobs[j].path)
     THEN jobs' = [jobs EXCEPT ![j] = Return(@, TRUE)]
     ELSE \/ jobs' = [jobs EXCEPT ![j] = FailAttempt([@ EXCEPT !.fetched = TRUE])]
          \/ jobs' = [jobs EXCEPT ![j].pc = "stream", ![j].fetched = TRUE]
  /\ UNCHANGED <<navOnly, workerShared>>

\* "self.total_bytes_downloaded += len(chunk)", first half: a chunk arrives,
\* the thread loads the counter and adds the chunk's length.  The site serves
\* at most cap bytes.
ChunkLoad(j, cap) ==
  /\ jobs[j].pc = "stream"
  /\ \E n \in ChunkLens :
       /\ received + n <= cap
       /\ jobs' = [jobs EXCEPT ![j].pc = "store",
                               ![j].sum = total_bytes_downloaded + n]
       /\ received' = received + n
  /\ UNCHANGED <<navOnly, total_bytes_downloaded, files>>

\* second half: the sum is stored back (and emitted as bandwidth_update)
ChunkStore(j) ==
  /\ jobs[j].pc = "store"
  /\ total_bytes_downloaded' = jobs[j].sum
  /\ jobs' = [jobs EXCEPT ![j].pc = "stream", ![j].sum = 0]
  /\ UNCHANGED <<navOnly, files, received>>

\* iter_content raises in mid-body: the attempt fails
StreamFail(j) ==
  /\ jobs[j].pc = "stream"
  /\ jobs' = [jobs EXCEPT ![j] = FailAttempt(@)]
  /\ UNCHANGED <<navOnly, workerShared>>

\* The body is complete and QImage makes img of it: the resolution filter,
\* then the write of the file.
StreamEndWith(j, img) ==
  /\ jobs[j].pc = "stream"
  /\ IF SkippedForResolution(config.min_resolution, img)
     THEN /\ jobs' = [jobs EXCEPT ![j] = Return(@, TRUE)]
          /\ UNCHANGED files
     ELSE /\ jobs' = [jobs EXCEPT ![j] = Return([@ EXCEPT !.wrote = TRUE], TRUE)]
          /\ files' = [files EXCEPT ![jobs[j].path] = "new"]
  /\ UNCHANGED <<navOnly, total_bytes_downloaded, received>>

StreamEnd(j) == \E img \in Images : StreamEndWith(j, img)

\* one step of one pool thread, the site serving at most cap bytes
JobStepUpTo(cap) ==
  \E j \in JobIds :
    \/ StartJob(j)
    \/ Attempt(j)
    \/ ChunkLoad(j, cap)
    \/ ChunkStore(j)
    \/ StreamFail(j)
    \/ StreamEnd(j)

JobStep == JobStepUpTo(MaxBytes)

(* --------------------------- specification ----------------------------- *)
Next ==
  \/ LoopCheck
  \/ PopUrl
  \/ CrawlFetch
  \/ BatchNext
  \/ BatchEnd
  \/ PoolExit
  \/ Navigate
  \/ Delay
  \/ Finally
  \/ Stop
  \/ JobStep

Spec == Init /\ [][Next]_vars

\* The run nobody stops.  The thread of run() and the threads of the pool are
\* scheduled as long as they have a statement to execute, and every request
\* returns or raises: a step that stays possible is eventually taken.
LiveNext ==
  \/ LoopCheck
  \/ PopUrl
  \/ CrawlFetch
  \/ BatchNext
  \/ BatchEnd
  \/ PoolExit
  \/ Navigate
  \/ Delay
  \/ Finally
  \/ JobStep

LiveSpec == Init /\ [][LiveNext]_vars /\ WF_vars(LiveNext)

(* ------------------- the crawl over redirected pages ------------------- *)
\* The crawl loop on a site whose pages hold no image, so that every step is
\* one of the thread of run().  The GET of a page may end at any page of the
\* site (resp.url); the final URL of each processed page is recorded.
RedirectFetch ==
  /\ FetchPage({<<>>}, PageURLs, {200})
  /\ processed_as' = Append(processed_as, IF nav_pc' = "batch" THEN url' ELSE NoLink)

RedirectNext ==
  \/ LoopCheck
  \/ PopUrl
  \/ RedirectFetch
  \/ BatchEnd
  \/ PoolExit
  \/ Navigate
  \/ Delay
  \/ Finally
  \/ Stop

RedirectSpec == Init /\ [][RedirectNext]_vars

(* ------------------- one call of process_page -------------------------- *)
\* The worker right after its first pop: the start URL is marked visited and
\* process_page has been entered.
PageInit ==
  /\ url_queue = <<>>
  /\ visited_urls = {<<"read.php", 1>>}
  /\ config \in [min_resolution : MinResolutions]
  /\ is_running = TRUE
  /\ total_bytes_downloaded = 0
  /\ nav_pc = "fetch"
  /\ current_url = <<"read.php", 1>>
  /\ url = NoLink
  /\ jobs = <<>>
  /\ completed_count = 0
  /\ downloaded_count = 0
  /\ files \in [Paths -> {"absent", "old"}]
  /\ page_status = "running"
  /\ status_title = "Analyzing..."
  /\ status_date = ""
  /\ resp_status = 0
  /\ finished_count = 0
  /\ processed = << <<"read.php", 1>> >>
  /\ received = 0
  /\ interrupted = FALSE
  /\ exit_reason = "none"
  /\ pops_after_stop = 0
  /\ NavIdle
  /\ FunIdle
  /\ processed_as = <<>>

\* process_page on a page of up to MaxBatch images.  The final URL only labels
\* the events of the page, so the answer is taken unredirected (and 200) here.
BatchFetch == FetchPage(ImageLists(MaxBatch), {current_url}, {200}) /\ UNCHANGED obsVars

\* process_page from its entry to its return, the pool threads it starts, and
\* a stop() at any moment
PageNext ==
  \/ BatchFetch
  \/ BatchNext
  \/ BatchEnd
  \/ PoolExit
  \/ Navigate
  \/ Stop
  \/ JobStep

PageSpec == PageInit /\ [][PageNext]_vars


(* ------------------- the crawl over pages of two images --------------- *)
\* The whole run from the first call of process_page on, over pages that hold
\* exactly two images: a stop request can find one job of the page returned
\* and the other still running.
TwoImages == [1..2 -> Paths]
TwoFetch == FetchPage(TwoImages, {current_url}, {200}) /\ UNCHANGED obsVars

RunNext ==
  \/ LoopCheck
  \/ PopUrl
  \/ TwoFetch
  \/ BatchNext
  \/ BatchEnd
  \/ PoolExit
  \/ Navigate
  \/ Delay
  \/ Finally
  \/ Stop
  \/ JobStep

RunSpec == PageInit /\ [][RunNext]_vars

(* ------------------- download_image calls on their own ----------------- *)
\* the minimum resolutions of the config: none, width only, height only, both
JobMinResolutions == {<<0, 0>>, <<2, 0>>, <<0, 2>>, <<2, 2>>}

\* The worker right after process_page has submitted the jobs of a page: the
\* thread of run() waits in as_completed.
JobInit ==
  /\ url_queue = <<>>
  /\ visited_urls = {<<"read.php", 1>>}
  /\ config \in [min_resolution : JobMinResolutions]
  /\ is_running = TRUE
  /\ total_bytes_downloaded = 0
  /\ nav_pc = "batch"
  /\ current_url = <<"read.php", 1>>
  /\ url = <<"read.php", 1>>
  /\ \E imgs \in ImageLists(MaxJobs) :
       /\ Len(imgs) >= 1
       /\ jobs = [i \in 1..Len(imgs) |-> NewJob(imgs[i])]
  /\ completed_count = 0
  /\ downloaded_count = 0
  /\ resp_status = 200
  /\ files \in [Paths -> {"absent", "old"}]
  /\ page_status = "running"
  /\ status_title = "title"
  /\ status_date = "date"
  /\ finished_count = 0
  /\ processed = << <<"read.php", 1>> >>
  /\ received = 0
  /\ interrupted = FALSE
  /\ exit_reason = "none"
  /\ pops_after_stop = 0
  /\ NavIdle
  /\ FunIdle
  /\ processed_as = <<>>

\* the pool threads run the jobs, the site serving at most MaxStream bytes
JobNext == JobStepUpTo(MaxStream)

JobSpec == JobInit /\ [][JobNext]_vars

(* --------------------- the pool of a page of many images --------------- *)
\* process_page has been entered for a page whose images are all on disk from
\* an earlier run: every job returns at its exists test.  The page GET is
\* answered with any of PageStatuses.
PoolInit ==
  /\ url_queue = <<>>
  /\ visited_urls = {<<"read.php", 1>>}
  /\ config = [min_resolution |-> <<0, 0>>]
  /\ is_running = TRUE
  /\ total_bytes_downloaded = 0
  /\ nav_pc = "fetch"
  /\ current_url = <<"read.php", 1>>
  /\ url = NoLink
  /\ jobs = <<>>
  /\ completed_count = 0
  /\ downloaded_count = 0
  /\ resp_status = 0
  /\ files = [p \in Paths |-> "old"]
  /\ page_status = "running"
  /\ status_title = "Analyzing..."
  /\ status_date = ""
  /\ finished_count = 0
  /\ processed = << <<"read.php", 1>> >>
  /\ received = 0
  /\ interrupted = FALSE
  /\ exit_reason = "none"
  /\ pops_after_stop = 0
  /\ NavIdle
  /\ FunIdle
  /\ processed_as = <<>>

\* the candidate lists of the page: up to PoolJobs images
PoolLists == {[i \in 1..k |-> 1] : k \in 0..PoolJobs}

PoolFetch == FetchPage(PoolLists, {current_url}, PageStatuses) /\ UNCHANGED obsVars

PoolNext ==
  \/ PoolFetch
  \/ BatchNext
  \/ BatchEnd
  \/ PoolExit
  \/ Stop
  \/ JobStep

PoolSpec == PoolInit /\ [][PoolNext]_vars

(* ------------------------- utils.py: strings --------------------------- *)
\* A str is the sequence of its characters, each a one-character string.
DigitChars == <<"0", "1", "2", "3", "4", "5", "6", "7", "8", "9">>
IsDigit(c) == \E d \in DOMAIN DigitChars : DigitChars[d] = c

\* s.startswith(p)
StartsWith(s, p) == Len(s) >= Len(p) /\ SubSeq(s, 1, Len(p)) = p

\* Mutant: only the first occurrence is replaced.
RECURSIVE Replace_First(_, _, _)
Replace_First(s, old, new) ==
  IF s = <<>> THEN <<>>
  ELSE IF StartsWith(s, old)
       THEN new \o SubSeq(s, Len(old) + 1, Len(s))
       ELSE <<Head(s)>> \o Replace_First(Tail(s), old, new)

\* s.replace(old, new), old not empty: every occurrence, found left to right
\* in s itself (what new brings in is not scanned again by this call)
RECURSIVE Replace(_, _, _)
Replace(s, old, new) ==
  IF s = <<>> THEN <<>>
  ELSE IF StartsWith(s, old)
       THEN new \o Replace(SubSeq(s, Len(old) + 1, Len(s)), old, new)
       ELSE <<Head(s)>> \o Replace(Tail(s), old, new)

\* str(n), n >= 0
RECURSIVE Decimal(_)
Decimal(n) ==
  IF n < 10 THEN <<DigitChars[n + 1]>>
  ELSE Decimal(n \div 10) \o <<DigitChars[(n % 10) + 1]>>

\* int(s), s a string of digits
RECURSIVE Number(_)
Number(s) ==
  IF s = <<>> THEN 0
  ELSE 10 * Number(SubSeq(s, 1, Len(s) - 1))
       + (CHOOSE d \in 0..9 : DigitChars[d + 1] = s[Len(s)])

\* f"{n:0{width}d}", also what strftime does with %Y %m %d %H %M %S
ZeroPad(n, width) ==
  LET d == Decimal(n)
  IN IF Len(d) >= width THEN d ELSE [i \in 1..(width - Len(d)) |-> "0"] \o d

\* the characters re.sub(r'[\\/*?:"<>|]', "", name) removes
IllegalChars == {"\\", "/", "*", "?", ":", "\"", "<", ">", "|"}
Whitespace == {" ", "\t", "\n"}

RECURSIVE LStrip(_)
LStrip(s) ==
  IF s # <<>> /\ Head(s) \in Whitespace THEN LStrip(Tail(s)) ELSE s

RECURSIVE RStrip(_)
RStrip(s) ==
  IF s # <<>> /\ s[Len(s)] \in Whitespace THEN RStrip(SubSeq(s, 1, Len(s) - 1)) ELSE s

\* sanitize_filename(name)
sanitize_filename(name) ==
  RStrip(LStrip(SelectSeq(name, LAMBDA c : c \notin IllegalChars)))

\* the longest prefix of s made of digits
RECURSIVE TakeDigits(_)
TakeDigits(s) ==
  IF s # <<>> /\ IsDigit(Head(s)) THEN <<Head(s)>> \o TakeDigits(Tail(s)) ELSE <<>>

\* the prefix of s that ends before its first character in stops
RECURSIVE TakeUntil(_, _)
TakeUntil(s, stops) ==
  IF s # <<>> /\ Head(s) \notin stops THEN <<Head(s)>> \o TakeUntil(Tail(s), stops) ELSE <<>>

\* s.split(sep), sep one character
RECURSIVE Split(_, _)
Split(s, sep) ==
  LET first == TakeUntil(s, {sep})
  IN IF Len(first) = Len(s) THEN <<first>>
     ELSE <<first>> \o Split(SubSeq(s, Len(first) + 2, Len(s)), sep)

\* what follows the first "//" of s (nothing when there is none)
RECURSIVE AfterSlashes(_)
AfterSlashes(s) ==
  IF s = <<>> THEN <<>>
  ELSE IF StartsWith(s, <<"/", "/">>) THEN SubSeq(s, 3, Len(s))
  ELSE AfterSlashes(Tail(s))

\* urlparse(url).netloc
Netloc(u) ==
  TakeUntil(AfterSlashes(u), {"/", "?", "#"})

(* ----------------------- utils.py: format_filename --------------------- *)
\* the placeholders of the naming pattern
PH_YMD == <<"{", "Y", "Y", "Y", "Y", "-", "M", "M", "-", "D", "D", "}">>
PH_YYYY == <<"{", "Y", "Y", "Y", "Y", "}">>
PH_MM == <<"{", "M", "M", "}">>
PH_DD == <<"{", "D", "D", "}">>
PH_HMS == <<"{", "H", "H", "-", "m", "m", "-", "s", "s", "}">>
PH_HH == <<"{", "H", "H", "}">>
PH_mm == <<"{", "m", "m", "}">>
PH_ss == <<"{", "s", "s", "}">>
PH_title == <<"{", "p", "a", "g", "e", ".", "t", "i", "t", "l", "e", "}">>
PH_host == <<"{", "p", "a", "g", "e", ".", "h", "o", "s", "t", "}">>
PH_filename == <<"{", "f", "i", "l", "e", "n", "a", "m", "e", "}">>
PH_serial == <<"{", "o", "r", "i", "g", "i", "n", "_", "s", "e", "r", "i", "a", "l", "}">>
NoOpen == <<"{", "n", "o", ".">>
PH_no(D) == NoOpen \o D \o <<"}">>

\* page_date.strftime of the two composite placeholders
StrfDate(d) == ZeroPad(d.Y, 4) \o <<"-">> \o ZeroPad(d.M, 2) \o <<"-">> \o ZeroPad(d.D, 2)
StrfTime(d) == ZeroPad(d.h, 2) \o <<"-">> \o ZeroPad(d.m, 2) \o <<"-">> \o ZeroPad(d.s, 2)

\* Mutant: {no.D} counts on from the number D.
replace_padding_Offset(D, index) == ZeroPad(Number(D) + index, Len(D))

\* replace_padding(match): width = len(pattern), val = index + 1
replace_padding(D, index) == ZeroPad(index + 1, Len(D))

\* re.sub(r'\{no\.(\d+)\}', replace_padding, res)
RECURSIVE SubNo(_, _)
SubNo(s, index) ==
  IF s = <<>> THEN <<>>
  ELSE LET D == IF StartsWith(s, NoOpen)
                THEN TakeDigits(SubSeq(s, Len(NoOpen) + 1, Len(s)))
                ELSE <<>>
           end == Len(NoOpen) + Len(D) + 1
       IN IF D # <<>> /\ Len(s) >= end /\ s[end] = "}"
          THEN replace_padding(D, index) \o SubNo(SubSeq(s, end + 1, Len(s)), index)
          ELSE <<Head(s)>> \o SubNo(Tail(s), index)

\* page_date is None
NoDate == [Y |-> 0, M |-> 0, D |-> 0, h |-> 0, m |-> 0, s |-> 0]

\* format_filename(url, page_title, page_date, original_filename, index,
\* naming_pattern); now is what datetime.datetime.now() answers
format_filename(page_url, page_title, page_date, original_filename, index, naming_pattern, now) ==
  LET host == Netloc(page_url)
      date == IF page_date = NoDate THEN now ELSE page_date
      safe_title == sanitize_filename(page_title)
      safe_host == sanitize_filename(host)
      r1 == Replace(naming_pattern, PH_YMD, StrfDate(date))
      r2 == Replace(r1, PH_YYYY, ZeroPad(date.Y, 4))
      r3 == Replace(r2, PH_MM, ZeroPad(date.M, 2))
      r4 == Replace(r3, PH_DD, ZeroPad(date.D, 2))
      r5 == Replace(r4, PH_HMS, StrfTime(date))
      r6 == Replace(r5, PH_HH, ZeroPad(date.h, 2))
      r7 == Replace(r6, PH_mm, ZeroPad(date.m, 2))
      r8 == Replace(r7, PH_ss, ZeroPad(date.s, 2))
      r9 == Replace(r8, PH_title, safe_title)
      r10 == Replace(r9, PH_host, safe_host)
      r11 == Replace(r10, PH_filename, original_filename)
      r12 == Replace(r11, PH_serial, Decimal(index + 1))
  IN SubNo(r12, index)

\* all of the worker but its config at rest
WorkerIdle ==
  /\ processed_as = <<>>
  /\ url_queue = <<>>
  /\ visited_urls = {}
  /\ is_running = FALSE
  /\ total_bytes_downloaded = 0
  /\ nav_pc = "idle"
  /\ current_url = NoLink
  /\ url = NoLink
  /\ jobs = <<>>
  /\ completed_count = 0
  /\ downloaded_count = 0
  /\ files = [p \in Paths |-> "absent"]
  /\ page_status = "none"
  /\ status_title = ""
  /\ status_date = ""
  /\ resp_status = 0
  /\ finished_count = 0
  /\ processed = <<>>
  /\ received = 0
  /\ interrupted = FALSE
  /\ exit_reason = "none"
  /\ pops_after_stop = 0

(* ------------- the navigation block as a function of its inputs -------- *)
\* No worker is constructed: the crawl variables stay as they are.
CrawlIdle ==
  /\ WorkerIdle
  /\ config = [min_resolution |-> <<0, 0>>]

\* The inputs of the navigation block: the mode, the page's two anchors
\* (urljoin'ed hrefs, NoLink when absent), the redirector's answer, the queue.
NavInit ==
  /\ CrawlIdle
  /\ FunIdle
  /\ n_pc = "ready"
  /\ n_mode \in Modes
  /\ n_next \in Links
  /\ n_prev \in Links
  /\ n_resp \in Responses
  /\ n_before \in {<<>>, << <<"read.php", 1>> >>}
  /\ n_queue = n_before

NavStep ==
  /\ n_pc = "ready"
  /\ n_queue' = n_queue \o NavAppend(n_mode, n_next, n_prev, n_resp)
  /\ n_pc' = "done"
  /\ UNCHANGED <<crawlVars, n_mode, n_next, n_prev, n_resp, n_before, funVars, obsVars>>

NavNext == NavStep

NavSpec == NavInit /\ [][NavNext]_vars

(* --------------- process_page: the filter of image URLs ---------------- *)
UpperChars == <<"A", "B", "C", "D", "E", "F", "G", "H", "I", "J", "K", "L", "M", "N", "O", "P", "Q", "R", "S", "T", "U", "V", "W", "X", "Y", "Z">>
LowerChars == <<"a", "b", "c", "d", "e", "f", "g", "h", "i", "j", "k", "l", "m", "n", "o", "p", "q", "r", "s", "t", "u", "v", "w", "x", "y", "z">>
\* s.lower()
Lower(s) ==
  [i \in DOMAIN s |->
     IF \E k \in DOMAIN UpperChars : UpperChars[k] = s[i]
     THEN LowerChars[CHOOSE k \in DOMAIN UpperChars : UpperChars[k] = s[i]]
     ELSE s[i]]

\* s.rfind(c), counted from 1; 0 when c is not in s
RECURSIVE RFind(_, _)
RFind(s, c) ==
  IF s = <<>> THEN 0
  ELSE IF s[Len(s)] = c THEN Len(s)
  ELSE RFind(SubSeq(s, 1, Len(s) - 1), c)

\* os.path.splitext(p)[1]: from the last dot of the last path component on,
\* when something other than a dot stands before it in that component
splitext_ext(p) ==
  LET sepIndex == RFind(p, "/")
      dotIndex == RFind(p, ".")
  IN IF dotIndex > sepIndex
        /\ \E k \in (sepIndex + 1)..(dotIndex - 1) : p[k] # "."
     THEN SubSeq(p, dotIndex, Len(p))
     ELSE <<>>

\* path_part = abs_url.split('?')[0]; ext = splitext(path_part)[1].lower();
\* if not ext: ext = '.jpg'
DotJpg == <<".", "j", "p", "g">>
ImageExt(abs_url) ==
  LET path_part == TakeUntil(abs_url, {"?"})
      ext == Lower(splitext_ext(path_part))
  IN IF ext = <<>> THEN DotJpg ELSE ext

\* Mutant: the wildcard is not honoured.
IsAllowed_NoWildcard(ext, allowed_formats) ==
  \E i \in DOMAIN allowed_formats : allowed_formats[i] = ext

\* ext in allowed_formats or '*' in allowed_formats
IsAllowed(ext, allowed_formats) ==
  \/ \E i \in DOMAIN allowed_formats : allowed_formats[i] = ext
  \/ \E i \in DOMAIN allowed_formats : allowed_formats[i] = <<"*">>

\* src = img.get('data-src') or img.get('src'); an absent attribute is ""
TagSrc(img) == IF img.data_src # <<>> THEN img.data_src ELSE img.src

\* the loop over img_tags: image_urls in page order, each URL once
RECURSIVE FilterImages(_, _, _)
FilterImages(img_tags, allowed_formats, image_urls) ==
  IF img_tags = <<>> THEN image_urls
  ELSE LET abs_url == TagSrc(Head(img_tags))
           keep == /\ abs_url # <<>>
                   /\ IsAllowed(ImageExt(abs_url), allowed_formats)
                   /\ \A i \in DOMAIN image_urls : image_urls[i] # abs_url
       IN FilterImages(Tail(img_tags), allowed_formats,
                       IF keep THEN Append(image_urls, abs_url) ELSE image_urls)

\* config.get(key, default), config a dict
Get(cfg, key, default) == IF key \in DOMAIN cfg THEN cfg[key] ELSE default

\* the default of config.get('formats', [...])
DefaultFormats ==
  <<<<".", "j", "p", "g">>,
    <<".", "p", "n", "g">>,
    <<".", "j", "p", "e", "g">>,
    <<".", "g", "i", "f">>,
    <<".", "w", "e", "b", "p">>,
    <<".", "b", "m", "p">>,
    <<".", "s", "v", "g">>,
    <<".", "i", "c", "o">>,
    <<".", "t", "i", "f", "f">>,
    <<".", "a", "v", "i", "f">>>>

\* The sources of the <img> tags of a page, urljoin'ed: absolute URLs, which
\* urljoin gives back as they are.
PicPNGQuery == <<"h", "t", "t", "p", ":", "/", "/", "h", "/", "p", "i", "c", ".", "P", "N", "G", "?", "x", "=", "1">>
PlainJpg == <<"h", "t", "t", "p", ":", "/", "/", "h", "/", "a", ".", "j", "p", "g">>
NoExtension == <<"h", "t", "t", "p", ":", "/", "/", "h", "/", "i", "m", "g">>
DotInDirectory == <<"h", "t", "t", "p", ":", "/", "/", "h", "/", "a", ".", "b", "/", "c">>
DotInQuery == <<"h", "t", "t", "p", ":", "/", "/", "h", "/", "x", ".", "g", "i", "f", "?", "f", "=", "a", ".", "p", "n", "g">>
LeadingDot == <<"h", "t", "t", "p", ":", "/", "/", "h", "/", ".", "p", "n", "g">>
WithFragment == <<"h", "t", "t", "p", ":", "/", "/", "h", "/", "p", ".", "p", "n", "g", "#", "t">>
ImageUrls ==
  {PicPNGQuery, PlainJpg, NoExtension, DotInDirectory, DotInQuery, LeadingDot,
   WithFragment}
ImgTags ==
  {[data_src |-> <<>>, src |-> u] : u \in ImageUrls \cup {<<>>}}
  \cup {[data_src |-> PlainJpg, src |-> DotInQuery]}
TagLists == UNION {[1..k -> ImgTags] : k \in 0..MaxTags}

\* the allow-lists of the worker's config; NoFormats: the key is absent
FormatsPngJpg == <<<<".", "p", "n", "g">>, <<".", "j", "p", "g">>>>
FormatsGif == <<<<".", "g", "i", "f">>>>
FormatsAny == <<<<"*">>>>
FilterConfigs ==
  {[k \in {"formats"} |-> l] : l \in {FormatsPngJpg, FormatsGif, FormatsAny, <<>>}}
  \cup {[k \in {"save_dir"} |-> <<"d">>]}

FilterInit ==
  /\ WorkerIdle
  /\ NavIdle
  /\ config \in FilterConfigs
  /\ f_pc = "ready"
  /\ f_in \in [img_tags : TagLists]
  /\ f_out = <<>>

\* lines 221-244 of process_page
FilterStep ==
  /\ f_pc = "ready"
  /\ f_out' = FilterImages(f_in.img_tags, Get(config, "formats", DefaultFormats), <<>>)
  /\ f_pc' = "done"
  /\ UNCHANGED <<crawlVars, navVars, f_in, obsVars>>

FilterNext == FilterStep

FilterSpec == FilterInit /\ [][FilterNext]_vars

(* ------------- download_image: the path of the file to write ---------- *)
\* os.path.join(a, b): b alone when it starts at the root
os_path_join(a, b) ==
  IF StartsWith(b, <<"/">>) THEN b
  ELSE IF a = <<>> \/ a[Len(a)] = "/" THEN a \o b
  ELSE a \o <<"/">> \o b

\* the default of config.get('save_dir', 'downloads')
DefaultSaveDir == <<"d", "o", "w", "n", "l", "o", "a", "d", "s">>

(* ------------------ gui.py: the task table of the panel ---------------- *)
\* The window as update_task_status sees it: the rows of task_table (top row
\* first; state is the text of column 0, "" while the cell has no item),
\* last_success_url, and whether save_config was called.
RowStates == {"", "Running", "Done", "Error"}

\* the row update_task_status works on: the first whose URL cell is url, else
\* a row inserted at the top
WithRow(task_table, u) ==
  IF \E r \in DOMAIN task_table : task_table[r].url = u
  THEN task_table
  ELSE <<[url |-> u, state |-> "", title |-> "", date |-> ""]>> \o task_table
FoundRow(task_table, u) ==
  CHOOSE r \in DOMAIN task_table :
    /\ task_table[r].url = u
    /\ \A q \in 1..(r - 1) : task_table[q].url # u

\* update_task_status(url, status, title, date_str)
update_task_status(gui, u, status, title, date_str) ==
  LET table == WithRow(gui.task_table, u)
      found_row == FoundRow(table, u)
      state == CASE status = "running" -> "Running"
                 [] status = "done" -> "Done"
                 [] status = "error" -> "Error"
                 [] OTHER -> table[found_row].state
  IN [task_table |->
        [table EXCEPT ![found_row] =
           [url |-> u, state |-> state, title |-> title, date |-> date_str]],
      last_success_url |-> IF status = "done" THEN u ELSE gui.last_success_url,
      saved |-> gui.saved \/ status = "done"]

\* The rows earlier pages left in the table, and the page that is processed
\* now: its URL and how it ends (the GET raises, or downloaded of total images
\* were downloaded).
EarlierTables ==
  UNION {[1..k -> [url : PageURLs, state : {"Running", "Error"},
                   title : {"title"}, date : {"date"}]] : k \in 0..MaxRows}
PageOutcomes ==
  {[raises |-> TRUE, downloaded |-> 0, total |-> 0]}
  \cup {[raises |-> FALSE, downloaded |-> d, total |-> t] :
          t \in 0..MaxBatch, d \in 0..MaxBatch}
FinalEvent(outcome) ==
  IF outcome.raises THEN <<"error", "Failed", "">>
  ELSE <<FinalStatus(outcome.downloaded, outcome.total), "title", "date">>

GuiInit ==
  /\ CrawlIdle
  /\ NavIdle
  /\ f_pc = "idle"
  /\ f_in \in {i \in [url : PageURLs, outcome : PageOutcomes, table : EarlierTables] :
                 i.outcome.downloaded <= i.outcome.total}
  /\ f_out = [task_table |-> f_in.table, last_success_url |-> NoLink, saved |-> FALSE]

\* the slot runs on status_update.emit(url, "running", "Analyzing...", "")
GuiRunning ==
  /\ f_pc = "idle"
  /\ f_out' = update_task_status(f_out, f_in.url, "running", "Analyzing...", "")
  /\ f_pc' = "running"
  /\ UNCHANGED <<crawlVars, navVars, f_in, obsVars>>

\* the slot runs on the final status_update of the page
GuiFinal ==
  /\ f_pc = "running"
  /\ LET e == FinalEvent(f_in.outcome)
     IN f_out' = update_task_status(f_out, f_in.url, e[1], e[2], e[3])
  /\ f_pc' = "finished"
  /\ UNCHANGED <<crawlVars, navVars, f_in, obsVars>>

GuiNext == GuiRunning \/ GuiFinal

GuiSpec == GuiInit /\ [][GuiNext]_vars

(* ---------------- process_page: the date of the page ------------------ *)
\* What a date pattern finds in a piece of the page: nothing ("none"), a
\* match strptime rejects ("bad", e.g. month 13), or a date ("good").
Finds == {"none", "bad", "good"}

\* a marker element: its title attribute and its text
MarkerElements == [title_attr : Finds, text : Finds]
MarkerLists == UNION {[1..k -> MarkerElements] : k \in 0..MaxMarkers}

\* Strategy 1, the loop over target_elements: the title attribute first, then
\* the text; the first date strptime accepts ends the loop.  The result names
\* where the date was found, "none" when page_date stays None.
RECURSIVE Strategy1(_)
Strategy1(target_elements) ==
  IF target_elements = <<>> THEN "none"
  ELSE LET el == Head(target_elements)
       IN IF el.title_attr = "good" THEN "title_attr"
          ELSE IF el.text = "good" THEN "text"
          ELSE Strategy1(Tail(target_elements))

\* Strategy 2: the first match in the visible text; the raw HTML is searched
\* only when the visible text has no match at all.
Strategy2(body_text, raw_html) ==
  IF body_text # "none"
  THEN IF body_text = "good" THEN "body_text" ELSE "none"
  ELSE IF raw_html = "good" THEN "raw_html" ELSE "none"

\* The pieces are independent: both scans stop after 30000 characters, so a
\* match inside an element need not be one of the scans.
DateInit ==
  /\ CrawlIdle
  /\ NavIdle
  /\ f_pc = "ready"
  /\ f_in \in [target_elements : MarkerLists, body_text : Finds, raw_html : Finds]
  /\ f_out = <<>>

\* lines 125-204 of process_page: strategy 1; when page_date is still None,
\* the debug file is written (or open() raises, which is logged) and strategy
\* 2 runs.
ExtractDate ==
  /\ f_pc = "ready"
  /\ LET dom == Strategy1(f_in.target_elements)
     IN IF dom # "none"
        THEN f_out' = [page_date |-> dom, debug_file |-> "none"]
        ELSE \E written \in {"written", "failed"} :
               f_out' = [page_date |-> Strategy2(f_in.body_text, f_in.raw_html),
                         debug_file |-> written]
  /\ f_pc' = "done"
  /\ UNCHANGED <<crawlVars, navVars, f_in, obsVars>>

DateNext == ExtractDate

DateSpec == DateInit /\ [][DateNext]_vars

(* --------------------- format_filename on its own ---------------------- *)
\* The naming patterns: up to MaxPieces pieces, each a placeholder or a piece
\* of plain text, and the two patterns the program itself names (the one of
\* the self-test of utils.py and the default of download_image).
NoDigitStrings ==
  {<<"0">>, <<"1">>, <<"0", "0">>, <<"0", "1">>, <<"1", "0">>, <<"0", "0", "1">>,
   <<"1", "0", "0", "0", "1">>}
DatePlaceholders == {PH_YMD, PH_YYYY, PH_MM, PH_DD, PH_HMS, PH_HH, PH_mm, PH_ss}
TextPieces == {<<"/">>, <<"_">>, <<"a">>}
Pieces ==
  DatePlaceholders \cup {PH_title, PH_host, PH_filename, PH_serial}
  \cup {PH_no(D) : D \in NoDigitStrings} \cup TextPieces

ExamplePieces ==
  <<PH_host, <<"/">>, PH_YMD, <<"/">>, PH_title, <<"/">>,
    PH_no(<<"0", "0", "1">>), <<"_">>, PH_filename>>
DefaultPieces == <<PH_title, <<"/">>, PH_filename>>
FormatPatterns ==
  UNION {[1..k -> Pieces] : k \in 0..MaxPieces} \cup {ExamplePieces, DefaultPieces}

\* "".join(pieces)
RECURSIVE Concat(_)
Concat(ss) == IF ss = <<>> THEN <<>> ELSE Head(ss) \o Concat(Tail(ss))

\* The other arguments: those of the self-test of utils.py, and each of them
\* varied in turn.
ExampleDate == [Y |-> 2025, M |-> 7, D |-> 18, h |-> 9, m |-> 9, s |-> 0]
ClockDate == [Y |-> 2024, M |-> 12, D |-> 1, h |-> 23, m |-> 59, s |-> 58]
ExampleArgs ==
  [page_url |-> <<"h", "t", "t", "p", ":", "/", "/", "e", "x", "a", "m", "p", "l", "e", ".", "c", "o", "m", "/", "a">>,
   page_title |-> <<"T", "e", "s", "t", " ", "T", "i", "t", "l", "e">>,
   page_date |-> ExampleDate,
   now |-> ClockDate,
   original_filename |-> <<"i", "m", "g", ".", "j", "p", "g">>,
   index |-> 5]
Titles ==
  {<<"T", "e", "s", "t", " ", "T", "i", "t", "l", "e">>,
   <<"{", "f", "i", "l", "e", "n", "a", "m", "e", "}">>,
   <<"{", "n", "o", ".", "0", "1", "}">>,
   <<".", ".">>,
   <<"?">>,
   <<" ", "a", ":", "b", " ">>}
Filenames == {<<"i", "m", "g", ".", "j", "p", "g">>, <<"{", "n", "o", ".", "1", "}", ".", "j", "p", "g">>}
Indexes == {0, 5, 9}
PageUrls == {<<"h", "t", "t", "p", ":", "/", "/", "e", "x", "a", "m", "p", "l", "e", ".", "c", "o", "m", "/", "a">>, <<"h", "t", "t", "p", ":", "/", "/", "h", ":", "8", "0", "/">>}
FormatArgs ==
  {[ExampleArgs EXCEPT !.page_title = t] : t \in Titles}
  \cup {[ExampleArgs EXCEPT !.original_filename = f] : f \in Filenames}
  \cup {[ExampleArgs EXCEPT !.index = i] : i \in Indexes}
  \cup {[ExampleArgs EXCEPT !.page_date = d] : d \in {ExampleDate, NoDate}}
  \cup {[ExampleArgs EXCEPT !.page_url = u] : u \in PageUrls}

FormatInit ==
  /\ CrawlIdle
  /\ NavIdle
  /\ f_pc = "ready"
  /\ f_in \in [pieces : FormatPatterns, args : FormatArgs]
  /\ f_out = <<>>

\* the call format_filename(...) of download_image
FormatStep ==
  /\ f_pc = "ready"
  /\ f_out' = format_filename(f_in.args.page_url, f_in.args.page_title,
                              f_in.args.page_date, f_in.args.original_filename,
                              f_in.args.index, Concat(f_in.pieces), f_in.args.now)
  /\ f_pc' = "done"
  /\ UNCHANGED <<crawlVars, navVars, f_in, obsVars>>

FormatNext == FormatStep

FormatSpec == FormatInit /\ [][FormatNext]_vars

(* ---------------- gui.py: the start command of the panel --------------- *)
\* the check boxes of the formats, in the order init_ui creates them
PanelFormats == <<<<"j", "p", "g">>, <<"p", "n", "g">>, <<"w", "e", "b", "p">>, <<"g", "i", "f">>, <<"s", "v", "g">>>>

\* the entries of the resolution box that stand for no minimum ("unlimited"
\* and "custom"), each character written by its code point
ResUnlimited == <<"U+4E0D", "U+9650", "U+5236">>
ResCustom == <<"U+81EA", "U+5B9A", "U+4E49">>

\* parse_resolution(): "WxH" gives (W, H), anything else (0, 0)
parse_resolution(text) ==
  IF text = ResUnlimited \/ text = ResCustom THEN <<0, 0>>
  ELSE LET parts == Split(Lower(text), "x")
           IsInt(t) == t # <<>> /\ \A i \in DOMAIN t : IsDigit(t[i])
       IN IF Len(parts) = 2 /\ IsInt(parts[1]) /\ IsInt(parts[2])
          THEN <<Number(parts[1]), Number(parts[2])>>
          ELSE <<0, 0>>

\* the dict start_crawler collects from the panel
PanelConfig(panel) ==
  [k \in {"save_dir", "naming", "mode", "min_res", "formats", "page_delay", "img_delay"} |->
     CASE k = "save_dir" -> RStrip(LStrip(panel.save_dir))
       [] k = "naming" -> RStrip(LStrip(panel.naming))
       [] k = "mode" -> "next"
       [] k = "min_res" -> parse_resolution(panel.res)
       [] k = "formats" -> SelectSeq(PanelFormats, LAMBDA f : f \in panel.ticked)
       [] k = "page_delay" -> <<2, 5>>
       [] k = "img_delay" -> <<0, 1>>]

\* What the panel can hold when Start is pressed, and the page the crawl then
\* meets: one <img>.
NamingTexts == {Concat(DefaultPieces), Concat(ExamplePieces), <<" ">> \o PH_filename \o <<" ">>}
ResTexts == {ResUnlimited, ResCustom, <<"2", "x", "1">>, <<"1", "X", "2">>, <<"a", "x", "b">>, <<"8", "0", "0", "x", "6", "0", "0">>}
Panels ==
  [url : {ExampleArgs.page_url},
   save_dir : {DefaultSaveDir},
   naming : NamingTexts,
   res : ResTexts,
   ticked : SUBSET {PanelFormats[i] : i \in DOMAIN PanelFormats}]
StartPages ==
  {<<[data_src |-> <<>>, src |-> u]>> : u \in {PlainJpg, PicPNGQuery, NoExtension}}

StartInit ==
  /\ WorkerIdle
  /\ NavIdle
  /\ config = <<>>
  /\ f_pc = "panel"
  /\ f_in \in [panel : Panels, img_tags : StartPages]
  /\ f_out = <<>>

\* start_crawler: CrawlerWorker(url, config) with the dict of the panel
start_crawler ==
  /\ f_pc = "panel"
  /\ RStrip(LStrip(f_in.panel.url)) # <<>>
  /\ RStrip(LStrip(f_in.panel.save_dir)) # <<>>
  /\ config' = PanelConfig(f_in.panel)
  /\ f_pc' = "started"
  /\ UNCHANGED <<url_queue, visited_urls, is_running, total_bytes_downloaded, nav_pc,
                 current_url, url, jobs, completed_count, downloaded_count,
                 resp_status, files, page_status, status_title, status_date,
                 finished_count, processed, received, interrupted, exit_reason,
                 pops_after_stop, navVars, f_in, f_out, obsVars>>

\* lines 221-244 of process_page, on the page the crawl meets
StartFilter ==
  /\ f_pc = "started"
  /\ f_out' = [image_urls |->
                 FilterImages(f_in.img_tags, Get(config, "formats", DefaultFormats), <<>>)]
  /\ f_pc' = "filtered"
  /\ UNCHANGED <<crawlVars, navVars, f_in, obsVars>>

\* os.path.basename(p)
basename(p) == SubSeq(p, RFind(p, "/") + 1, Len(p))

\* download_image as a function of the worker's config, applied to the image
\* of the page: the file name (lines 423-427), the path (429-432) and the
\* resolution filter (454-461) on the body it would download.
StartDownload ==
  /\ f_pc = "started"
  /\ \E image \in Images :
       LET img_url == TagSrc(f_in.img_tags[1])
           clean_url == TakeUntil(img_url, {"?"})
           base == basename(clean_url)
           original_filename == IF splitext_ext(base) = <<>> THEN base \o DotJpg ELSE base
           naming_pattern == Get(config, "naming_pattern", Concat(DefaultPieces))
           save_path_template ==
             format_filename(ExampleArgs.page_url, ExampleArgs.page_title,
                             ExampleArgs.page_date, original_filename, 0,
                             naming_pattern, ExampleArgs.now)
           min_resolution == Get(config, "min_resolution", <<0, 0>>)
       IN f_out' = [original_filename |-> original_filename,
                    save_path_template |-> save_path_template,
                    full_save_path |->
                      os_path_join(Get(config, "save_dir", DefaultSaveDir),
                                   save_path_template),
                    image |-> image,
                    skipped |-> SkippedForResolution(min_resolution, image)]
  /\ f_pc' = "job"
  /\ UNCHANGED <<crawlVars, navVars, f_in, obsVars>>

StartNext == start_crawler \/ StartFilter \/ StartDownload

StartSpec == StartInit /\ [][StartNext]_vars



(* ============================= properties ============================== *)
Range(f) == {f[i] : i \in DOMAIN f}

(* C1: no URL string is passed to process_page twice in one run; a popped URL
   that is already in visited_urls is discarded. *)
C1_ProcessedAtMostOnce ==
  \A i, k \in DOMAIN processed : i # k => processed[i] # processed[k]

\* a URL was popped and discarded because it had been processed before
C1_Witness ==
  /\ nav_pc = "check"
  /\ current_url # NoLink
  /\ current_url \in Range(processed)
  /\ Len(processed) = 2

(* C2: when every worker of the page has finished, total_bytes_downloaded is
   the sum of the lengths of all chunks the workers received (no lost update). *)
C2_NoLostUpdate ==
  AllDone => total_bytes_downloaded = received

(* C3 as stated: after stop() has cleared is_running the loop pops no URL. *)
C3_NoPopAfterStop ==
  pops_after_stop = 0

(* C3 amended: after stop() has cleared is_running the loop pops at most one
   more URL (the one whose loop test had passed before the stop) and so enters
   process_page at most once more, whatever the queue holds. *)
C3_AtMostOnePopAfterStop ==
  pops_after_stop <= 1

\* the stop fell between the loop test and the pop; that page was processed,
\* it appended a link, and the loop ended with the link still queued
C3_Witness ==
  /\ nav_pc = "done"
  /\ exit_reason = "stop"
  /\ pops_after_stop = 1
  /\ url_queue # <<>>

(* C4: finished is emitted exactly once per run, by the time run() has ended
   and not before, whether the queue ran out, stop was requested or the loop
   body raised; and run() is never stuck before it ends. *)
C4_FinishedExactlyOnce ==
  /\ nav_pc = "done" => finished_count = 1
  /\ nav_pc # "done" => finished_count = 0
  /\ nav_pc # "done" =>
       ENABLED (LoopCheck \/ PopUrl \/ CrawlFetch \/ BatchNext \/ BatchEnd
                \/ PoolExit \/ Navigate \/ Delay \/ Finally \/ JobStep)

\* a run ended by an exception of the loop body has emitted finished
C4_Witness ==
  /\ nav_pc = "done"
  /\ exit_reason = "exception"
  /\ finished_count = 1

(* C5: for a page with at least one job whose batch was not interrupted, the
   final status is "success" iff every job returned True, "warning" iff some
   did and some did not, "error" iff none did. *)
C5_StatusMatchesOutcomes ==
  (nav_pc = "nav" /\ Len(jobs) >= 1 /\ ~interrupted) =>
    LET ok == {j \in JobIds : jobs[j].result}
        bad == JobIds \ ok
    IN /\ page_status = "success" <=> bad = {}
       /\ page_status = "warning" <=> (ok # {} /\ bad # {})
       /\ page_status = "error" <=> ok = {}

\* a page of two jobs, one succeeded and one failed, reported as "warning"
C5_Witness ==
  /\ nav_pc = "nav"
  /\ ~interrupted
  /\ Len(jobs) = 2
  /\ jobs[1].result /\ ~jobs[2].result
  /\ page_status = "warning"

(* C6: a job never goes beyond its third attempt (index 2), and a job that
   returned failure did so from its third attempt, having issued GETs and
   written no file. *)
C6_ThreeAttemptsThenFailure ==
  \A j \in JobIds :
    /\ jobs[j].attempt <= 2
    /\ (jobs[j].pc = "done" /\ ~jobs[j].result) =>
         (jobs[j].attempt = 2 /\ jobs[j].fetched /\ ~jobs[j].wrote)

\* a job whose three attempts all raised, with nothing at its target path
C6_Witness ==
  \E j \in JobIds :
    /\ jobs[j].pc = "done"
    /\ ~jobs[j].result
    /\ jobs[j].attempt = 2
    /\ files[jobs[j].path] = "absent"

(* C7: a job that starts while a file exists at its target path returns True in
   that step, has issued no GET, and leaves total_bytes_downloaded and the
   file as they were. *)
C7_ExistingFileShortCircuits ==
  [][\A j \in JobIds :
       (/\ jobs[j].pc = "attempt"
        /\ jobs[j].attempt = 0
        /\ files[jobs[j].path] # "absent"
        /\ Len(jobs') = Len(jobs)
        /\ jobs'[j] # jobs[j])
       => /\ jobs'[j].pc = "done"
          /\ jobs'[j].result
          /\ ~jobs'[j].fetched
          /\ ~jobs'[j].wrote
          /\ total_bytes_downloaded' = total_bytes_downloaded
          /\ files' = files]_vars

\* a job returned True without a GET, its file still the one found on disk
C7_Witness ==
  \E j \in JobIds :
    /\ jobs[j].pc = "done"
    /\ jobs[j].result
    /\ ~jobs[j].fetched
    /\ files[jobs[j].path] = "old"

\* what a followed anchor contributes to the queue: its resolved URL unless
\* that still names the redirector
Contribution(link) ==
  IF link = NoLink \/ HasJobPhp(ResolveLink(link, n_resp))
  THEN <<>>
  ELSE <<ResolveLink(link, n_resp)>>

(* C8: in mode 'next' the navigation block appends exactly the resolved
   next-topic link when that anchor is present and resolves away from the
   redirector, and nothing otherwise (the previous-topic link is never used);
   mode 'prev' is the mirror image. *)
C8_NextAndPrevModes ==
  n_pc = "done" =>
    /\ n_mode = "next" => n_queue = n_before \o Contribution(n_next)
    /\ n_mode = "prev" => n_queue = n_before \o Contribution(n_prev)

\* mode 'next', no next-topic anchor, a usable previous-topic anchor: nothing
\* was appended
C8_Witness ==
  /\ n_pc = "done"
  /\ n_mode = "next"
  /\ n_next = NoLink
  /\ n_prev \in PageURLs
  /\ n_queue = n_before

(* C9: in mode 'free' the next-topic anchor is followed when present (the
   previous-topic anchor is then not considered, even when the next link is
   dropped), the previous-topic anchor when the next is absent, and nothing is
   appended when both are absent. *)
C9_FreeModePrefersNext ==
  (n_pc = "done" /\ n_mode = "free") =>
    n_queue = n_before \o (IF n_next # NoLink THEN Contribution(n_next)
                           ELSE Contribution(n_prev))

\* mode 'free', the next link is stuck on the redirector, a usable
\* previous-topic anchor exists and is not used
C9_Witness ==
  /\ n_pc = "done"
  /\ n_mode = "free"
  /\ HasJobPhp(n_next)
  /\ n_resp.raises
  /\ n_prev \in PageURLs
  /\ n_queue = n_before

(* C10: in every mode, what the navigation block appends never names the
   redirector: when the followed link still contains 'job.php' after
   resolution the queue is left as it was. *)
C10_RedirectorNeverEnqueued ==
  n_pc = "done" =>
    /\ \A i \in DOMAIN n_queue : i > Len(n_before) => ~HasJobPhp(n_queue[i])
    /\ LET link == IF n_mode = "next" THEN n_next
                   ELSE IF n_mode = "prev" THEN n_prev
                   ELSE IF n_next # NoLink THEN n_next ELSE n_prev
       IN (link # NoLink /\ HasJobPhp(ResolveLink(link, n_resp)))
            => n_queue = n_before

\* the redirector answered with a page that holds neither a meta-refresh nor a
\* script target: the link was dropped
C10_Witness ==
  /\ n_pc = "done"
  /\ n_mode = "prev"
  /\ HasJobPhp(n_prev)
  /\ ~n_resp.raises
  /\ HasJobPhp(n_resp.url)
  /\ n_resp.meta = NoLink
  /\ n_resp.js = NoLink
  /\ n_queue = n_before

(* C11 as stated: once the as_completed loop has seen is_running cleared and
   broken out of the batch, no job of the page that had not issued a GET
   issues one. *)
C11_NoGetAfterStopObserved ==
  [][\A j \in JobIds :
       (/\ interrupted
        /\ Len(jobs') = Len(jobs)
        /\ ~jobs[j].fetched)
       => ~jobs'[j].fetched]_vars

(* C12 as stated: when the as_completed loop has seen is_running cleared, the
   thread of run() leaves the batch whether or not jobs of the page are still
   running: its next step, past the with block, can be taken at once. *)
C12_LeavesWithoutWaiting ==
  (nav_pc = "join" /\ interrupted) => ENABLED PoolExit

(* C13 as stated: a page whose final response carries a status outside 2xx
   has no image job submitted and ends with status "error". *)
C13_NonOkPageFails ==
  (resp_status # 0 /\ resp_status \notin 200..299) =>
    /\ jobs = <<>>
    /\ nav_pc = "nav" => page_status = "error"

(* C14 as stated: when the page GET raises, the page gets status "error" with
   an empty title and an empty date, no job is submitted, nothing is appended
   to the queue, process_page returns to the loop, and the loop can go on to
   its next iteration. *)
C14_PageGetRaises_NoTitle ==
  /\ [][(nav_pc = "fetch" /\ nav_pc' \notin {"fetch", "batch"}) =>
         /\ page_status' = "error"
         /\ status_title' = ""
         /\ status_date' = ""
         /\ jobs' = <<>>
         /\ url_queue' = url_queue
         /\ nav_pc' = "delay"]_vars
  /\ [](nav_pc = "delay" => ENABLED (Delay /\ nav_pc' = "check"))

(* C14 amended: when the page GET raises, the page gets status "error" with
   the placeholder "Failed" in the title field and an empty date, no job is
   submitted, nothing is appended to the queue, process_page returns to the
   loop (the exception does not reach run()), and the loop can go on to its
   next iteration. *)
C14_PageGetRaises ==
  /\ [][(nav_pc = "fetch" /\ nav_pc' \notin {"fetch", "batch"}) =>
         /\ page_status' = "error"
         /\ status_title' = "Failed"
         /\ status_date' = ""
         /\ jobs' = <<>>
         /\ url_queue' = url_queue
         /\ nav_pc' = "delay"]_vars
  /\ [](nav_pc = "delay" => ENABLED (Delay /\ nav_pc' = "check"))

\* the GET of the second page of the run raised: the page is marked, nothing
\* was queued, and the loop is about to test its condition again
C14_Witness ==
  /\ nav_pc = "delay"
  /\ page_status = "error"
  /\ status_title = "Failed"
  /\ jobs = <<>>
  /\ url_queue = <<>>
  /\ Len(processed) = 2

(* C15: a failed job stops nothing: while a job of the page has not reached
   its outcome some pool thread can step, the thread of run() leaves the with
   block only when every job has reached its outcome and then always into the
   navigation block, and there every outcome of the navigation block is open
   to it whatever the jobs returned. *)
C15_FailureIsIsolated ==
  /\ []((nav_pc \in {"batch", "join"} /\ ~AllDone) => ENABLED JobStep)
  /\ [][(nav_pc = "join" /\ nav_pc' # "join") => (AllDone /\ nav_pc' = "nav")]_vars
  /\ [](nav_pc = "nav" =>
          \A a \in NavAppends : ENABLED (Navigate /\ url_queue' = url_queue \o a))

\* the first job of a page failed, its sibling downloaded and wrote its file,
\* and the page has reached its navigation block
C15_Witness ==
  /\ nav_pc = "nav"
  /\ Len(jobs) = 2
  /\ ~jobs[1].result /\ jobs[1].yielded
  /\ jobs[2].result /\ jobs[2].wrote

(* C16: with a minimum width or height configured, a job whose body is
   complete and decodes to an image narrower than the minimum width or lower
   than the minimum height returns True in that step, writes nothing, and
   leaves total_bytes_downloaded holding what it held. *)
C16_BelowMinimumIsSkipped ==
  \A j \in JobIds : \A img \in Images :
    (/\ jobs[j].pc = "stream"
     /\ config.min_resolution[1] > 0 \/ config.min_resolution[2] > 0
     /\ img.loads
     /\ img.w < config.min_resolution[1] \/ img.h < config.min_resolution[2])
    => /\ ENABLED StreamEndWith(j, img)
       /\ ~ENABLED (/\ StreamEndWith(j, img)
                    /\ ~(/\ jobs'[j].pc = "done"
                         /\ jobs'[j].result
                         /\ ~jobs'[j].wrote
                         /\ files' = files
                         /\ total_bytes_downloaded' = total_bytes_downloaded))

\* only a minimum width is configured; a job downloaded its body, returned True
\* without writing, nothing is at its path, and its bytes are in the counter
C16_Witness ==
  /\ config.min_resolution = <<2, 0>>
  /\ Len(jobs) = 1
  /\ jobs[1].pc = "done"
  /\ jobs[1].result
  /\ jobs[1].fetched
  /\ ~jobs[1].wrote
  /\ files[jobs[1].path] = "absent"
  /\ total_bytes_downloaded = received
  /\ received > 0

(* C17: at every moment of a page's batch at most 5 download_image calls are
   executing, also when the page has more images than that. *)
C17_AtMostFiveExecuting ==
  Cardinality(Executing) <= 5

\* a page of six images: five jobs are executing and the sixth waits in the
\* executor's queue
C17_Witness ==
  /\ Len(jobs) = 6
  /\ Cardinality(Executing) = 5
  /\ jobs[6].pc = "queued"

(* C18: within a page the completed count starts at 0, every progress event
   raises it by exactly 1 (so the events carry 1, 2, ...), it is the number of
   futures yielded so far and never exceeds the number of images, and a batch
   that was not interrupted ends with it equal to that number. *)
C18_ProgressCounts ==
  /\ [][(nav_pc = "fetch" /\ nav_pc' = "batch") => completed_count' = 0]_vars
  /\ [][(nav_pc = "batch" /\ completed_count' # completed_count) =>
         completed_count' = completed_count + 1]_vars
  /\ [](nav_pc \in {"batch", "join", "nav"} =>
          /\ completed_count = Cardinality({j \in JobIds : jobs[j].yielded})
          /\ completed_count <= Len(jobs))
  /\ []((nav_pc = "nav" /\ ~interrupted) => completed_count = Len(jobs))

\* the second image of a page completed first: its progress event carried 1
C18_Witness ==
  /\ nav_pc = "batch"
  /\ Len(jobs) = 2
  /\ jobs[2].yielded
  /\ ~jobs[1].yielded
  /\ completed_count = 1

(* C19 as stated: total_bytes_downloaded starts at 0 and no step makes it
   smaller, under every interleaving of the pool threads. *)
C19_CounterNeverDecreases ==
  /\ total_bytes_downloaded = 0
  /\ [][total_bytes_downloaded' >= total_bytes_downloaded]_vars

(* C20 as stated: no step appends to url_queue a URL that is in visited_urls. *)
C20_VisitedNeverAppended ==
  [][Len(url_queue') > Len(url_queue) =>
       url_queue'[Len(url_queue')] \notin visited_urls]_vars

(* ------------------------------- C21 ----------------------------------- *)
\* The value the placeholder table gives a piece of the pattern; a piece that
\* is no placeholder stands for itself.
TableValue(piece, a) ==
  LET date == IF a.page_date = NoDate THEN a.now ELSE a.page_date
  IN CASE piece = PH_YMD -> ZeroPad(date.Y, 4) \o <<"-">> \o ZeroPad(date.M, 2)
                            \o <<"-">> \o ZeroPad(date.D, 2)
       [] piece = PH_YYYY -> ZeroPad(date.Y, 4)
       [] piece = PH_MM -> ZeroPad(date.M, 2)
       [] piece = PH_DD -> ZeroPad(date.D, 2)
       [] piece = PH_HMS -> ZeroPad(date.h, 2) \o <<"-">> \o ZeroPad(date.m, 2)
                            \o <<"-">> \o ZeroPad(date.s, 2)
       [] piece = PH_HH -> ZeroPad(date.h, 2)
       [] piece = PH_mm -> ZeroPad(date.m, 2)
       [] piece = PH_ss -> ZeroPad(date.s, 2)
       [] piece = PH_title -> sanitize_filename(a.page_title)
       [] piece = PH_host -> sanitize_filename(Netloc(a.page_url))
       [] piece = PH_filename -> a.original_filename
       [] piece = PH_serial -> Decimal(a.index + 1)
       [] piece \in {PH_no(D) : D \in NoDigitStrings} ->
            ZeroPad(a.index + 1, Len(piece) - Len(NoOpen) - 1)
       [] OTHER -> piece
TableRender(pieces, a) == Concat([i \in DOMAIN pieces |-> TableValue(pieces[i], a)])

\* the title, the host and the file name bring no "{" with them
PlainArgs(a) ==
  \A v \in {a.page_title, Netloc(a.page_url), a.original_filename} :
    \A i \in DOMAIN v : v[i] # "{"

ExampleRendered == <<"e", "x", "a", "m", "p", "l", "e", ".", "c", "o", "m", "/", "2", "0", "2", "5", "-", "0", "7", "-", "1", "8", "/", "T", "e", "s", "t", " ", "T", "i", "t", "l", "e", "/", "0", "0", "6", "_", "i", "m", "g", ".", "j", "p", "g">>

\* C21: format_filename replaces every placeholder of the pattern by its table
\* value and leaves the other pattern text, path separators included, as it
\* is (for a title, host and file name that hold no placeholder text
\* themselves); the pattern {page.host}/{YYYY-MM-DD}/{page.title}/{no.001}_{filename}
\* with date 2025-07-18 09:09:00, title 'Test Title', file name 'img.jpg',
\* index 5 and URL http://example.com/a renders exactly
\* example.com/2025-07-18/Test Title/006_img.jpg.
C21_PlaceholdersByTable ==
  f_pc = "done" =>
    /\ PlainArgs(f_in.args) => f_out = TableRender(f_in.pieces, f_in.args)
    /\ (f_in.pieces = ExamplePieces /\ f_in.args = ExampleArgs) => f_out = ExampleRendered

\* C21 witness: the example of the self-test has been rendered.
C21_Witness ==
  /\ f_pc = "done"
  /\ f_in.pieces = ExamplePieces
  /\ f_in.args = ExampleArgs
  /\ f_out = ExampleRendered

(* ------------------------------- C22 ----------------------------------- *)
\* C22: a pattern {no.D} renders as the decimal number index + 1, padded on
\* the left with zeros to at least len(D) characters, whatever number D
\* spells, and in full when it is wider than D.
C22_NoIsPaddedIndex ==
  \A D \in NoDigitStrings :
    (f_pc = "done" /\ f_in.pieces = <<PH_no(D)>>) =>
      /\ \A i \in DOMAIN f_out : IsDigit(f_out[i])
      /\ Number(f_out) = f_in.args.index + 1
      /\ Len(f_out) >= Len(D)
      /\ Len(f_out) > Len(D) => f_out[1] # "0"

\* C22 witness: {no.10001} at index 0 has rendered 00001.
C22_Witness ==
  /\ f_pc = "done"
  /\ f_in.pieces = <<PH_no(<<"1", "0", "0", "0", "1">>)>>
  /\ f_in.args.index = 0
  /\ f_out = <<"0", "0", "0", "0", "1">>

(* ------------------------------- C23 ----------------------------------- *)
\* The extension of an image URL, said without the library calls: the text
\* before the first "?", from its last dot on, when that dot lies in the last
\* path component behind a character that is no dot; lower-cased; ".jpg" when
\* there is none.
ExtensionOf(u) ==
  LET cut == {i \in DOMAIN u : u[i] = "?"}
      n == IF cut = {} THEN Len(u) ELSE (CHOOSE i \in cut : \A j \in cut : i <= j) - 1
      dots == {i \in 1..n :
                 /\ u[i] = "."
                 /\ \A j \in (i + 1)..n : u[j] \notin {".", "/"}
                 /\ \E k \in 1..(i - 1) :
                      u[k] # "." /\ \A j \in k..i : u[j] # "/"}
  IN IF dots = {} THEN DotJpg
     ELSE Lower(SubSeq(u, CHOOSE i \in dots : TRUE, n))

\* C23: an image candidate is kept by process_page exactly when the
\* lower-cased extension of its URL with the query string removed (.jpg when
\* there is none) is in the configured allow-list, or the allow-list holds
\* "*"; pic.PNG?x=1 is kept under {.png, .jpg} and dropped under {.gif}.
C23_KeptByExtension ==
  f_pc = "done" =>
    LET allowed == Get(config, "formats", DefaultFormats)
        srcs == {TagSrc(f_in.img_tags[i]) : i \in DOMAIN f_in.img_tags} \ {<<>>}
    IN /\ Range(f_out) \subseteq srcs
       /\ \A u \in srcs :
            u \in Range(f_out) <=> (ExtensionOf(u) \in Range(allowed)
                                    \/ <<"*">> \in Range(allowed))
       /\ \A u \in srcs :
            u = PicPNGQuery =>
              /\ allowed = FormatsPngJpg => u \in Range(f_out)
              /\ allowed = FormatsGif => u \notin Range(f_out)

\* C23 witness: pic.PNG?x=1 has been kept under {.png, .jpg} while a .gif
\* image of the same page has been dropped.
C23_Witness ==
  /\ f_pc = "done"
  /\ config = [k \in {"formats"} |-> FormatsPngJpg]
  /\ f_in.img_tags = <<[data_src |-> <<>>, src |-> DotInQuery],
                       [data_src |-> <<>>, src |-> PicPNGQuery]>>
  /\ f_out = <<PicPNGQuery>>

(* ------------------------------- C24 ----------------------------------- *)
\* the components of a path
Components(s) == Split(s, "/")

\* C24: under the pattern {page.title}/{filename} the rendered path is
\* relative for every title, host, file name and index: it does not start
\* with a path separator and has no ".." component, so that joined to the save
\* root it names a file inside the save root.
C24_RenderedPathStaysInRoot ==
  (f_pc = "done" /\ f_in.pieces = DefaultPieces) =>
    LET full_save_path == os_path_join(DefaultSaveDir, f_out)
    IN /\ ~StartsWith(f_out, <<"/">>)
       /\ <<".", ".">> \notin Range(Components(f_out))
       /\ StartsWith(full_save_path, DefaultSaveDir \o <<"/">>)

(* ------------------------------- C29 ----------------------------------- *)
\* C29: the substitution does not nest: whatever the title, the host and the
\* file name hold, the rendered path is the pattern with each of its own
\* placeholders replaced at once by its table value, so placeholder text
\* inside a title or a file name comes out verbatim.
C29_SubstitutionDoesNotNest ==
  f_pc = "done" => f_out = TableRender(f_in.pieces, f_in.args)

(* ------------------------------- C25 ----------------------------------- *)
\* C25: a download job renders its path from the naming pattern of the start
\* command and applies the resolution filter with the minimum of the start
\* command, never with built-in defaults when the panel supplied a value.
C25_SuppliedValuesAreUsed ==
  f_pc = "job" =>
    /\ f_out.save_path_template =
         format_filename(ExampleArgs.page_url, ExampleArgs.page_title,
                         ExampleArgs.page_date, f_out.original_filename, 0,
                         config["naming"], ExampleArgs.now)
    /\ f_out.skipped = SkippedForResolution(config["min_res"], f_out.image)

(* ------------------------------- C30 ----------------------------------- *)
\* C30: when the start command is built with the format jpg ticked, an image
\* of the page whose URL path ends in .jpg is kept as a candidate.
C30_TickedFormatIsKept ==
  (/\ f_pc = "filtered"
   /\ <<"j", "p", "g">> \in f_in.panel.ticked
   /\ TagSrc(f_in.img_tags[1]) = PlainJpg)
    => PlainJpg \in Range(f_out.image_urls)

(* ------------------------------- C26 ----------------------------------- *)
\* C26: with no stop request the crawl loop terminates: no URL is processed
\* twice, so at most as many pages are processed as the site has URLs, and
\* eventually finished has been emitted with the queue empty (or the loop left
\* by an exception of its own body); links back to visited pages only cause
\* skipped pops.
C26_CrawlTerminates ==
  /\ [](/\ \A i, j \in DOMAIN processed : processed[i] = processed[j] => i = j
        /\ Len(processed) <= Cardinality(PageURLs))
  /\ <>[](/\ nav_pc = "done"
          /\ finished_count = 1
          /\ url_queue = <<>> \/ exit_reason = "exception")

\* C26 witness: every page of the site has been processed, the queue has run
\* empty and finished has been emitted.
C26_Witness ==
  /\ nav_pc = "done"
  /\ exit_reason = "empty"
  /\ url_queue = <<>>
  /\ finished_count = 1
  /\ Len(processed) = NumPages

(* ------------------------------- C27 ----------------------------------- *)
\* C27: the backoff is slept only between attempts: a job never sleeps more
\* than max_retries - 1 times, and a job that failed all its attempts has
\* slept exactly 1 s and then 2 s.
C27_BackoffOnlyBetweenAttempts ==
  \A j \in JobIds :
    /\ Len(jobs[j].waits) <= max_retries - 1
    /\ (jobs[j].pc = "done" /\ ~jobs[j].result) => jobs[j].waits = <<1, 2>>

(* ------------------------------- C28 ----------------------------------- *)
\* C28: the debug file is written for a page exactly when no strategy yields
\* a date: never for a page whose date some strategy found, and (unless the
\* write itself fails) always for a page left without a date.
C28_DumpOnlyOnTotalFailure ==
  f_pc = "done" =>
    /\ f_out.debug_file = "written" => f_out.page_date = "none"
    /\ f_out.page_date = "none" => f_out.debug_file # "none"

(* ------------------------------- C31 ----------------------------------- *)
\* C31: a page that yields no candidate image emits no progress event, gets
\* the final status "success", and goes on to its navigation block.
C31_EmptyPageSucceeds ==
  /\ [](jobs = <<>> =>
          /\ nav_pc \in {"batch", "join", "nav"} => completed_count = 0
          /\ nav_pc = "join" => ENABLED PoolExit
          /\ nav_pc = "nav" => page_status = "success" /\ ENABLED Navigate)
  /\ [][(jobs = <<>> /\ nav_pc \in {"batch", "join"})
          => nav_pc' \in {"batch", "join", "nav"}]_vars

\* C31 witness: a page without images has been given its final status.
C31_Witness ==
  /\ nav_pc = "nav"
  /\ jobs = <<>>
  /\ page_status = "success"
  /\ completed_count = 0

(* ------------------------------- C32 ----------------------------------- *)
\* C32: url_queue never holds more than one URL: a step removes one element
\* or appends at most one, and a page is processed when it is popped, in the
\* order the links were appended.
C32_QueueHoldsAtMostOne ==
  /\ [](Len(url_queue) <= 1)
  /\ [][/\ Len(url_queue') <= Len(url_queue) + 1
        /\ Len(url_queue') < Len(url_queue) => url_queue' = Tail(url_queue)
        /\ Len(processed') > Len(processed) =>
             processed' = Append(processed, Head(url_queue))]_vars

\* C32 witness: the second page of the run has appended the link it found;
\* the queue holds that one URL.
C32_Witness ==
  /\ nav_pc = "delay"
  /\ Len(processed) = 2
  /\ Len(url_queue) = 1

(* ------------------------------- C33 ----------------------------------- *)
\* C33: when the fetch of a requested URL was redirected and the page was
\* processed under the final URL F, no later page is requested as F: a queue
\* entry equal to F is discarded as visited.
C33_FinalUrlNotProcessedAgain ==
  \A i, k \in DOMAIN processed_as :
    (i < k /\ processed_as[i] # NoLink /\ processed_as[i] # processed[i])
      => processed[k] # processed_as[i]

(* ------------------------------- C34 ----------------------------------- *)
\* C34: of two jobs of a page that render to the same target path, at most
\* one downloads the body and writes the file, under every interleaving.
C34_OneWriterPerPath ==
  \A j, k \in JobIds :
    (j # k /\ jobs[j].path = jobs[k].path) => ~(jobs[j].wrote /\ jobs[k].wrote)

(* ------------------------------- C36 ----------------------------------- *)
\* C36: every final status of a page is handled by update_task_status: once
\* the page has finished its row no longer shows "Running", and a page that
\* finished with "success" is the last successful URL and was saved.
C36_FinalStatusHandled ==
  f_pc = "finished" =>
    LET row == f_out.task_table[FoundRow(f_out.task_table, f_in.url)]
    IN /\ row.state # "Running"
       /\ FinalEvent(f_in.outcome)[1] = "success" =>
            f_out.last_success_url = f_in.url /\ f_out.saved

(* ------------------------------- C35 ----------------------------------- *)
\* C35: finished is the last event of a run: whenever the thread of run() is
\* outside the pool block of a page, every job of the page has returned, so
\* once finished is emitted no job exists that could emit an event or write a
\* file, and no step changes the jobs, the files or the bandwidth counter;
\* also when stop was requested during a batch.
C35_FinishedIsLast ==
  /\ [](nav_pc \in {"nav", "delay", "check", "pop", "finally", "done"} =>
          \A j \in JobIds : jobs[j].pc = "done")
  /\ [](finished_count > 0 => nav_pc = "done" /\ jobs = <<>>)
  /\ [][finished_count > 0 =>
          UNCHANGED <<jobs, files, total_bytes_downloaded, received, finished_count>>]_vars

\* C35 witness: the run was stopped on its first page, of whose two jobs one
\* had written its file and the other had not; finished has been emitted.
C35_Witness ==
  /\ finished_count = 1
  /\ exit_reason = "stop"
  /\ Len(processed) = 1
  /\ total_bytes_downloaded > 0
  /\ \E p, q \in Paths : files[p] = "new" /\ files[q] = "absent"

====
